---- MODULE Spec2Model ----
(***************************************************************************)
(* Gas-path station solvers of Enginy (inlet duct, compressor, combustor,  *)
(* turbine) and the component constructors that chain them over one        *)
(* station dictionary.                                                     *)
(*                                                                         *)
(* Real quantities.  Velocities and Mach numbers are exact rationals       *)
(* <<num, den>>.  The static temperature and pressure a solver derives     *)
(* with the isentropic power laws (irrational exponents) are taken from    *)
(* the finite sets handed to the pass actions: every value of the set is   *)
(* a possible outcome of the formula.  The gas provider (Cantera) is an    *)
(* ideal gas: density = P / T, cp / cv = 7 / 5, a = sqrt(R * gamma * T).   *)
(* The iteration budgets of the source (100, 5000) are scaled to MaxIter.  *)
(***************************************************************************)
EXTENDS Integers, Sequences, FiniteSets, TLC

\* ---------------------------------------------------------------- bounds
MaxIter == 2       \* iteration budget handed to a solver (stands for 100 / 5000)
MaxStages == 3     \* largest stage count of a compressor or turbine

\* passes of one solver loop that are explored
MaxPasses == MaxIter + 2

\* static temperatures [K] and pressures a solver formula can yield
Temps == {500, 1000, 1500}
Press == {1, 2}

\* the values used while a whole engine is built
GraphTemps == {500, 1000}
GraphPress == {1}
MassFlows == {0, 1}
Areas == {1, 2}

\* ------------------------------------------------------------- rationals
RECURSIVE GCD(_, _)
GCD(a, b) == IF b = 0 THEN a ELSE GCD(b, a % b)

Abs(x) == IF x < 0 THEN -x ELSE x

Rat(n, d) == LET g == GCD(Abs(n), d) IN <<n \div g, d \div g>>

Zero == <<0, 1>>

RatDivInt(x, k) == Rat(x[1], x[2] * k)

RatMul(x, y) == Rat(x[1] * y[1], x[2] * y[2])

RatSub(x, y) == Rat(x[1] * y[2] - y[1] * x[2], x[2] * y[2])

\* finite precision: a value is kept to one decimal
RatRound(x) == Rat((x[1] \div x[2]) * 10 + ((x[1] % x[2]) * 10) \div x[2], 10)

RECURSIVE RatPow(_, _)
RatPow(x, n) == IF n = 0 THEN <<1, 1>> ELSE RatRound(RatMul(x, RatPow(x, n - 1)))

\* |x - y| < t for rationals x, y, t
AbsDiffLess(x, y, t) == Abs(x[1] * y[2] - y[1] * x[2]) * t[2] < t[1] * x[2] * y[2]

Isqrt(n) == CHOOSE r \in 0..n : r * r <= n /\ n < (r + 1) * (r + 1)

\* square root of a rational, rounded down
RatSqrt(x) == RatRound(Rat(Isqrt(x[1] * x[2] * 100), x[2] * 10))

\* ---------------------------------------------------------- gas provider
\* st = ["a", 1, 2, 3, 4, 5, 6]: a station is named by its index in st
Stations == 0..6

Composition(kind, phi) == [kind |-> kind, phi |-> phi]

comp_air == Composition("air", 0)

NoGas == [T |-> 0, P |-> 0, X |-> Composition("none", 0)]

\* a property push that carries the temperature only
TP_temperature_only(s, T, P) == [s EXCEPT !.T = T]

\* the provider's property setters: "s.TP = T, P" and "s.TPX = T, P, X"
TP(s, T, P) == [s EXCEPT !.T = T, !.P = P]

TPX(s, T, P, X) == [TP(s, T, P) EXCEPT !.X = X]

density(g) == Rat(g.P, g.T)

get_gamma(g) == <<7, 5>>

get_gas_constant(g) == 2

get_a(g) == Isqrt((get_gas_constant(g) * get_gamma(g)[1] * g.T) \div get_gamma(g)[2])

\* p_static * (1 + ((gamma - 1) / 2) * mach**2) ** (gamma / (gamma - 1)),
\* the exponent split into its whole part and a square root; the pressure
\* is kept to a whole number
get_p_total(p_static, gamma, mach) ==
    LET base == RatRound(RatSub(RatMul(RatDivInt(RatSub(gamma, <<1, 1>>), 2),
                                       RatMul(mach, mach)), <<-1, 1>>))
        e == Rat(gamma[1], gamma[1] - gamma[2])
        whole == RatPow(base, e[1] \div e[2])
        part == IF e[1] % e[2] = 0 THEN <<1, 1>> ELSE RatSqrt(base)
        ratio == RatRound(RatMul(whole, part))
    IN  <<(p_static * ratio[1]) \div ratio[2], 1>>

initialize_gas(temperature_amp, p_amb) ==
    [s \in Stations |-> [T |-> temperature_amp, P |-> p_amb, X |-> comp_air]]

\* isa_temperature / isa_p: colder and thinner with altitude level h
isa_temperature(h) == 1000 - 500 * h

isa_p(h) == 2 - h

Altitudes == {0, 1}

\* ------------------------------------------------------------------ state
VARIABLES
    gas,         \* the station dictionary of the graph (NoGas before an Inlet exists)
    inlet,       \* the Inlet object
    compressor,  \* the Compressor object
    combustor,   \* the Combustor object
    turbine,     \* the Turbine object
    ms,          \* frame of the running / last mach_solver call
    cs,          \* frame of the running / last compressor_solver call
    bs,          \* frame of the running / last combustor_solver call
    plot,        \* the last analyze() call: the component and the station trace it read
    graphs,      \* the ct.Solution objects and station dictionaries of several Inlets
    units,       \* frame of a call into the isa module's unit handling
    db,          \* the engine_parts collection and the last analyze_part response
    mongo        \* frame of the get_mongo_client call

engine == <<gas, inlet, compressor, combustor, turbine, ms, cs, bs, plot, graphs>>

\* the state outside the engine graph
others == <<units, db, mongo>>

vars == <<engine, others>>

\* an attribute that __init__ may or may not have assigned
Unset == [set |-> FALSE, val |-> Zero, ok |-> FALSE]

Attr(v, ok) == [set |-> TRUE, val |-> v, ok |-> ok]

\* --------------------------------------------------------- duct / Mach solver
mach_solver_tol == <<1, 100>>

IdleMach ==
    [status |-> "idle", mass_flow |-> 0, area |-> 1, gas_in |-> 0, gas_out |-> 0,
     mach_in |-> Zero, mach_in_ok |-> TRUE, max_iterations |-> 0, n_iter |-> 0,
     converged |-> FALSE, mach_out |-> Zero, velocity_out_guess |-> Zero,
     temperature_static_out |-> 0, p_static_out |-> 0,
     passes |-> 0, exhausted |-> FALSE, tol_met |-> FALSE]

\* lines 142-154: locals before the loop; the loop is entered when
\* not converged and n_iter <= max_iterations
mach_solver_begin(g, mass_flow, area, gas_in, mach_in, gas_out, max_iterations) ==
    [status |-> IF 0 <= max_iterations THEN "loop" ELSE "returned",
     mass_flow |-> mass_flow, area |-> area, gas_in |-> gas_in, gas_out |-> gas_out,
     mach_in |-> mach_in.val, mach_in_ok |-> mach_in.ok,
     max_iterations |-> max_iterations, n_iter |-> 0,
     converged |-> FALSE, mach_out |-> Zero,
     velocity_out_guess |->
         Rat(mass_flow * density(g[gas_in])[2], density(g[gas_in])[1] * area),
     temperature_static_out |-> 0, p_static_out |-> 0,
     passes |-> 0, exhausted |-> FALSE, tol_met |-> FALSE]

\* mach_solver_check with mach_out assigned before the loop only
mach_solver_check_no_mach(f, g_out) ==
    LET velocity_out == f.velocity_out_guess
        guess == Rat(f.mass_flow * density(g_out)[2], density(g_out)[1] * f.area)
        met == AbsDiffLess(velocity_out, guess, mach_solver_tol)
        f1 == [f EXCEPT !.velocity_out_guess = guess, !.tol_met = met,
                        !.passes = f.passes + 1]
    IN  IF met
        THEN [f1 EXCEPT !.converged = TRUE]
        ELSE IF f.n_iter < f.max_iterations
        THEN [f1 EXCEPT !.n_iter = f.n_iter + 1]
        ELSE [f1 EXCEPT !.mach_out = Zero, !.exhausted = TRUE]

\* mach_solver_check leaving the loop on an exhausted budget by setting
\* converged
mach_solver_check_gives_up(f, g_out) ==
    LET velocity_out == f.velocity_out_guess
        guess == Rat(f.mass_flow * density(g_out)[2], density(g_out)[1] * f.area)
        met == AbsDiffLess(velocity_out, guess, mach_solver_tol)
        f1 == [f EXCEPT !.velocity_out_guess = guess, !.tol_met = met,
                        !.passes = f.passes + 1]
    IN  IF met
        THEN [f1 EXCEPT !.converged = TRUE,
                        !.mach_out = RatDivInt(velocity_out, get_a(g_out))]
        ELSE IF f.n_iter < f.max_iterations
        THEN [f1 EXCEPT !.n_iter = f.n_iter + 1]
        ELSE [f1 EXCEPT !.mach_out = Zero, !.exhausted = TRUE, !.converged = TRUE]

\* lines 173-186: the velocity update and the convergence branch of one pass,
\* g_out being gas_out after the property push of line 170
mach_solver_check(f, g_out) ==
    LET velocity_out == f.velocity_out_guess
        guess == Rat(f.mass_flow * density(g_out)[2], density(g_out)[1] * f.area)
        met == AbsDiffLess(velocity_out, guess, mach_solver_tol)
        f1 == [f EXCEPT !.velocity_out_guess = guess, !.tol_met = met,
                        !.passes = f.passes + 1]
    IN  IF met
        THEN [f1 EXCEPT !.converged = TRUE,
                        !.mach_out = RatDivInt(velocity_out, get_a(g_out))]
        ELSE IF f.n_iter < f.max_iterations
        THEN [f1 EXCEPT !.n_iter = f.n_iter + 1]
        ELSE [f1 EXCEPT !.mach_out = Zero, !.exhausted = TRUE]

\* line 156: the loop condition, evaluated after a pass
mach_solver_status(f) ==
    IF ~f.converged /\ f.n_iter <= f.max_iterations THEN "loop" ELSE "returned"

\* one pass of the while loop of mach_solver (lines 156-186); the function
\* returns (line 188) when the loop condition fails after the pass
MachPass(TT, PP) ==
    /\ ms.status = "loop"
    /\ ms.passes < MaxPasses
    /\ \E T \in TT, P \in PP :
         LET g_out == TP(gas[ms.gas_out], T, P)
             f == mach_solver_check(ms, g_out)
         IN  /\ gas' = [gas EXCEPT ![ms.gas_out] = g_out]
             /\ ms' = [f EXCEPT !.status = mach_solver_status(f),
                                !.temperature_static_out = T, !.p_static_out = P]
    /\ UNCHANGED <<others, graphs, plot, inlet, compressor, combustor, turbine, cs, bs>>

\* ---------------------------------------------------------------- Inlet
MachInputs == {Zero, <<1, 2>>}

InletMachInputs == {<<1, 2>>}

InletAreas == {1}

NoInlet ==
    [status |-> "none", M_ambient |-> Zero, mass_flow |-> 0, A_1 |-> 1, A_2 |-> 1,
     M_inlet_in |-> Unset, M_inlet_out |-> Unset]

\* a constructor argument that is bound while __init__ of the upstream
\* component is still running
has_instance_early(c) == c.status \notin {"none", "failed"}

\* a component instance exists once its __init__ returned without raising;
\* downstream constructors take the instance as an argument
has_instance(c) == c.status = "built"

\* "if convergence: self.M_... = mach_calc" (inlet.py 98-99, 116-117;
\* combustor.py 101-102).  ok records that the value came back with
\* converged = True from a pass that met the tolerance.
store_if_converged(old, f) ==
    IF f.converged THEN Attr(f.mach_out, f.converged /\ f.tol_met) ELSE old

\* the default max_iterations of mach_solver, scaled to the bound
mach_solver_default_iterations == MaxIter

\* Inlet.__init__ up to the loop of the first mach_solver call
InletInit ==
    /\ inlet.status = "none"
    /\ \E h \in Altitudes, M \in InletMachInputs,
          mf \in MassFlows, A1 \in InletAreas, A2 \in InletAreas :
         LET g == initialize_gas(isa_temperature(h), isa_p(h))
         IN  /\ gas' = g
             /\ inlet' = [NoInlet EXCEPT !.status = "duct1", !.M_ambient = M,
                                         !.mass_flow = mf, !.A_1 = A1, !.A_2 = A2]
             /\ ms' = mach_solver_begin(g, mf, A1, 0, Attr(M, TRUE), 1,
                                        mach_solver_default_iterations)
    /\ UNCHANGED <<others, graphs, plot, compressor, combustor, turbine, cs, bs>>

\* mach_inlet_from_ambient_to_entrance after its solver call returned, then
\* mach_inlet_from_entrance_to_output up to the loop of its solver call;
\* reading self.M_inlet_in raises AttributeError when it was never assigned
InletAfterDuct1 ==
    /\ inlet.status = "duct1"
    /\ ms.status = "returned"
    /\ LET M_in == store_if_converged(inlet.M_inlet_in, ms)
       IN  IF M_in.set
           THEN /\ inlet' = [inlet EXCEPT !.status = "duct2", !.M_inlet_in = M_in]
                /\ ms' = mach_solver_begin(gas, inlet.mass_flow, inlet.A_2, 1, M_in, 2,
                                           mach_solver_default_iterations)
           ELSE /\ inlet' = [inlet EXCEPT !.status = "failed"]
                /\ ms' = IdleMach
    /\ UNCHANGED <<others, graphs, plot, gas, compressor, combustor, turbine, cs, bs>>

\* mach_inlet_from_entrance_to_output after its solver call returned
InletAfterDuct2 ==
    /\ inlet.status = "duct2"
    /\ ms.status = "returned"
    /\ inlet' = [inlet EXCEPT !.status = "built",
                              !.M_inlet_out = store_if_converged(inlet.M_inlet_out, ms)]
    /\ ms' = IdleMach
    /\ UNCHANGED <<others, graphs, plot, gas, compressor, combustor, turbine, cs, bs>>

\* ------------------------------------------------------- compressor solver
MIN_COMPRESSOR_NUM_OF_STAGES == 2

InitialPrevDeltaT == 1000

shift == <<1, 1000>>

RECURSIVE SeqMax(_)
SeqMax(s) ==
    IF Len(s) = 1 THEN s[1]
    ELSE LET m == SeqMax(Tail(s)) IN IF s[1] > m THEN s[1] ELSE m

\* shifter that raises every stage, the centre included
shifter_all_up(n) ==
    [i \in 1..n |-> Rat(shift[2] * n + shift[1], shift[2] * n)]

\* shifter whose late stages are lowered by half the step of the early ones
shifter_lopsided(n) ==
    LET center == n \div 2
        step(k) == Rat(shift[1] * k, shift[2] * n)
    IN  [i \in 1..n |->
            IF i - 1 < center
            THEN LET d == step(center - (i - 1)) IN Rat(d[2] + d[1], d[2])
            ELSE IF n - i < center
            THEN LET d == step(center - (n - i)) IN Rat(2 * d[2] - d[1], 2 * d[2])
            ELSE <<1, 1>>]

\* lines 329-337: shifter[i] (1-based here) for n stages
shifter(n) ==
    LET center == n \div 2
        step(k) == Rat(shift[1] * k, shift[2] * n)     \* k * step_shift
    IN  [i \in 1..n |->
            IF i - 1 < center
            THEN LET d == step(center - (i - 1)) IN Rat(d[2] + d[1], d[2])
            ELSE IF n - i < center
            THEN LET d == step(center - (n - i)) IN Rat(d[2] - d[1], d[2])
            ELSE <<1, 1>>]

\* stage_multiplier[i] is kept as the exponent k of shifter[i] ** k;
\* np.multiply(stage_multiplier, shifter) raises the exponent of every
\* factor that is not 1
apply_shift(mult, sh) ==
    [i \in DOMAIN mult |-> IF sh[i] = <<1, 1>> THEN mult[i] ELSE mult[i] + 1]

\* max_delta_t_of whose one-stage case forgets to subtract gas_in.T
max_delta_t_of_single_abs(n_stages, stages_temperature_out, gas_in_T) ==
    IF n_stages > MIN_COMPRESSOR_NUM_OF_STAGES
    THEN SeqMax([i \in 1..(n_stages - 1) |->
                    stages_temperature_out[i + 1] - stages_temperature_out[i]])
    ELSE IF n_stages > 1
    THEN LET d1 == stages_temperature_out[2] - stages_temperature_out[1]
             d0 == stages_temperature_out[1] - gas_in_T
         IN  IF d1 > d0 THEN d1 ELSE d0
    ELSE stages_temperature_out[n_stages]

\* max_delta_t_of sending two stages through the np.diff branch
max_delta_t_of_general_for_two(n_stages, stages_temperature_out, gas_in_T) ==
    IF n_stages >= MIN_COMPRESSOR_NUM_OF_STAGES
    THEN SeqMax([i \in 1..(n_stages - 1) |->
                    stages_temperature_out[i + 1] - stages_temperature_out[i]])
    ELSE stages_temperature_out[n_stages] - gas_in_T

\* lines 270-279: max_delta_t of one pass over the stage outlet temperatures
max_delta_t_of(n_stages, stages_temperature_out, gas_in_T) ==
    IF n_stages > MIN_COMPRESSOR_NUM_OF_STAGES
    THEN SeqMax([i \in 1..(n_stages - 1) |->
                    stages_temperature_out[i + 1] - stages_temperature_out[i]])
    ELSE IF n_stages > 1
    THEN LET d1 == stages_temperature_out[2] - stages_temperature_out[1]
             d0 == stages_temperature_out[1] - gas_in_T
         IN  IF d1 > d0 THEN d1 ELSE d0
    ELSE stages_temperature_out[n_stages] - gas_in_T

\* lines 232-268: compressor_work = sum of cp * (T_out - T_in) over the stages
RECURSIVE stage_work(_, _, _)
stage_work(ts, t_in, cp) ==
    IF Len(ts) = 0 THEN 0
    ELSE cp * (ts[1] - t_in) + stage_work(Tail(ts), ts[1], cp)

gas_cp == get_gamma(NoGas)[1]

\* lines 241-254 for every stage: the static pressure of stage i follows
\* from its total pressure, which rises stage by stage, and from its
\* static temperature (get_p_static)
stage_pressures(ts) == [i \in DOMAIN ts |-> i * (ts[i] \div 500)]

\* _process_compressor_stages is a function of its arguments, and
\* stage_multiplier is the only one that changes between two passes: the
\* stage temperatures a pass can produce, given the pass before it
stage_temperatures(f, TT) ==
    IF f.passes > 0 /\ f.stage_multiplier = f.last_multiplier
    THEN {f.stages_temperature_out}
    ELSE [1..f.n_stages -> TT]

IdleCompressorSolver ==
    [status |-> "idle", gas_in |-> 0, gas_out |-> 0,
     n_stages |-> 1, compress |-> 1, mach_in |-> Zero, mach_in_ok |-> TRUE, max_iterations |-> 0, stage_multiplier |-> <<0>>, last_multiplier |-> <<0>>,
     n_iter |-> 0, prev_delta_t |-> InitialPrevDeltaT, converged |-> FALSE,
     temperature_static |-> 0, p_static |-> 0, compressor_work |-> 0,
     stages_temperature_out |-> <<0>>, stages_p_out |-> <<0>>,
     max_delta_t |-> 0, min_delta_t |-> 0, passes |-> 0]

\* lines 317-347: locals before the loop.  compress ** (1 / n_stages) raises
\* ZeroDivisionError for n_stages = 0 and np.ones(n_stages) raises
\* ValueError for n_stages < 0; nothing else is checked.
compressor_solver_begin(gas_in, n_stages, compress, mach_in, gas_out, max_iterations) ==
    IF n_stages <= 0
    THEN [IdleCompressorSolver EXCEPT !.status = "raised", !.n_stages = n_stages,
                                      !.compress = compress,
                                      !.gas_in = gas_in, !.gas_out = gas_out]
    ELSE [status |-> IF 0 <= max_iterations THEN "loop" ELSE "returned",
          gas_in |-> gas_in, gas_out |-> gas_out,
          n_stages |-> n_stages, compress |-> compress,
          mach_in |-> mach_in.val, mach_in_ok |-> mach_in.ok,
          max_iterations |-> max_iterations,
          stage_multiplier |-> [i \in 1..n_stages |-> 0],
          last_multiplier |-> [i \in 1..n_stages |-> 0],
          n_iter |-> 0, prev_delta_t |-> InitialPrevDeltaT, converged |-> FALSE,
          temperature_static |-> 0, p_static |-> 0, compressor_work |-> 0,
          stages_temperature_out |-> [i \in 1..n_stages |-> 0],
          stages_p_out |-> [i \in 1..n_stages |-> 0],
          max_delta_t |-> 0, min_delta_t |-> 0, passes |-> 0]

\* compressor_solver_stages leaving temperature_static and p_static at the
\* 0.0 of lines 343-344
compressor_solver_stages_keeps_initial(f, ts, ps, gas_in_T) ==
    [f EXCEPT !.compressor_work = stage_work(ts, gas_in_T, gas_cp),
              !.stages_temperature_out = ts,
              !.stages_p_out = ps,
              !.max_delta_t = max_delta_t_of(f.n_stages, ts, gas_in_T),
              !.last_multiplier = f.stage_multiplier,
              !.passes = f.passes + 1]

\* compressor_solver_stages adding each pass's work to the work of the
\* passes before it
compressor_solver_stages_accumulates_work(f, ts, ps, gas_in_T) ==
    [f EXCEPT !.temperature_static = ts[f.n_stages],
              !.p_static = ps[f.n_stages],
              !.compressor_work = f.compressor_work + stage_work(ts, gas_in_T, gas_cp),
              !.stages_temperature_out = ts,
              !.stages_p_out = ps,
              !.max_delta_t = max_delta_t_of(f.n_stages, ts, gas_in_T),
              !.last_multiplier = f.stage_multiplier,
              !.passes = f.passes + 1]

\* lines 351-367: the results of _process_compressor_stages are assigned to
\* the locals of compressor_solver
compressor_solver_stages(f, ts, ps, gas_in_T) ==
    [f EXCEPT !.temperature_static = ts[f.n_stages],
              !.p_static = ps[f.n_stages],
              !.compressor_work = stage_work(ts, gas_in_T, gas_cp),
              !.stages_temperature_out = ts,
              !.stages_p_out = ps,
              !.max_delta_t = max_delta_t_of(f.n_stages, ts, gas_in_T),
              !.last_multiplier = f.stage_multiplier,
              !.passes = f.passes + 1]

\* compressor_solver_branch whose "NOT converged" branch leaves n_iter alone
compressor_solver_branch_no_count(f) ==
    IF f.max_delta_t < f.prev_delta_t /\ f.n_iter < f.max_iterations
    THEN [f EXCEPT !.n_iter = f.n_iter + 1,
                   !.stage_multiplier = apply_shift(f.stage_multiplier, shifter(f.n_stages)),
                   !.prev_delta_t = f.max_delta_t]
    ELSE IF f.n_iter >= f.max_iterations
    THEN f
    ELSE [f EXCEPT !.converged = TRUE]

\* compressor_solver_branch that never updates prev_delta_t
compressor_solver_branch_stale_prev(f) ==
    IF f.max_delta_t < f.prev_delta_t /\ f.n_iter < f.max_iterations
    THEN [f EXCEPT !.n_iter = f.n_iter + 1,
                   !.stage_multiplier = apply_shift(f.stage_multiplier, shifter(f.n_stages))]
    ELSE IF f.n_iter >= f.max_iterations
    THEN [f EXCEPT !.n_iter = f.n_iter + 1]
    ELSE [f EXCEPT !.converged = TRUE]

\* compressor_solver_branch comparing with <= instead of <
compressor_solver_branch_le(f) ==
    IF f.max_delta_t <= f.prev_delta_t /\ f.n_iter < f.max_iterations
    THEN [f EXCEPT !.n_iter = f.n_iter + 1,
                   !.stage_multiplier = apply_shift(f.stage_multiplier, shifter(f.n_stages)),
                   !.prev_delta_t = f.max_delta_t]
    ELSE IF f.n_iter >= f.max_iterations
    THEN [f EXCEPT !.n_iter = f.n_iter + 1]
    ELSE [f EXCEPT !.converged = TRUE]

\* lines 371-388: the three-way branch that ends a pass
compressor_solver_branch(f) ==
    IF f.max_delta_t < f.prev_delta_t /\ f.n_iter < f.max_iterations
    THEN [f EXCEPT !.n_iter = f.n_iter + 1,
                   !.stage_multiplier = apply_shift(f.stage_multiplier, shifter(f.n_stages)),
                   !.prev_delta_t = f.max_delta_t]
    ELSE IF f.n_iter >= f.max_iterations
    THEN [f EXCEPT !.n_iter = f.n_iter + 1]
    ELSE [f EXCEPT !.converged = TRUE]

\* compressor_solver_commit that writes gas_out only after convergence
compressor_solver_commit_if_converged(g, f) ==
    IF f.converged
    THEN [g EXCEPT ![f.gas_out] = [g[f.gas_out] EXCEPT
              !.T = f.temperature_static, !.P = f.p_static]]
    ELSE g

\* compressor_solver_commit that pushes the result to gas_in
compressor_solver_commit_upstream(g, f) ==
    [g EXCEPT ![f.gas_in] = [g[f.gas_in] EXCEPT
        !.T = f.temperature_static, !.P = f.p_static]]

\* line 391: gas_out.TP = temperature_static, p_static
compressor_solver_commit(g, f) ==
    [g EXCEPT ![f.gas_out] = TP(g[f.gas_out], f.temperature_static, f.p_static)]

\* line 349: the loop condition, evaluated after a pass
compressor_solver_status(f) ==
    IF ~f.converged /\ f.n_iter <= f.max_iterations THEN "loop" ELSE "returned"

\* one pass of the while loop of compressor_solver (lines 349-388).  With
\* compress <= 0 the first stage's total temperature is not a positive real
\* and the property push of line 255 is refused by the gas provider.  When
\* the loop condition fails after the pass, line 391 commits the pass's
\* static temperature and pressure to gas_out and the function
\* returns.  min_delta_t is the smallest max_delta_t of the passes so far.
CompressorPass(TT) ==
    /\ cs.status = "loop"
    /\ cs.passes < MaxPasses
    /\ IF cs.compress <= 0
       THEN /\ cs' = [cs EXCEPT !.status = "raised", !.passes = cs.passes + 1]
            /\ gas' = gas
       ELSE \E ts \in stage_temperatures(cs, TT) :
              LET f == compressor_solver_branch(
                           compressor_solver_stages(cs, ts, stage_pressures(ts),
                                                    gas[cs.gas_in].T))
                  st == compressor_solver_status(f)
              IN  /\ cs' = [f EXCEPT
                               !.status = st,
                               !.min_delta_t = IF cs.passes = 0 \/ f.max_delta_t < cs.min_delta_t
                                               THEN f.max_delta_t ELSE cs.min_delta_t]
                  /\ gas' = IF st = "returned" THEN compressor_solver_commit(gas, f) ELSE gas
    /\ UNCHANGED <<others, graphs, plot, inlet, compressor, combustor, turbine, ms, bs>>

\* ------------------------------------------------------------ Compressor
StageCounts == {-1, 0, 1, MaxStages}

CompressRatios == {-4, 0, 4}

NoCompressor ==
    [status |-> "none", stage_number |-> 0, compress |-> 0, M_comp_in |-> Unset,
     st_out |-> <<>>, convergence |-> FALSE, compressor_work |-> 0]

\* the default max_iterations of compressor_solver, scaled to the bound
compressor_solver_default_iterations == MaxIter

zip(ts, ps) == [i \in DOMAIN ts |-> <<ts[i], ps[i]>>]

\* Compressor.__init__ up to the loop of compressor_solver (lines 43-63);
\* reading inlet.M_inlet_out raises AttributeError when the Inlet never
\* assigned it, and an exception of the solver's first lines ends __init__
CompressorInit ==
    /\ has_instance(inlet)
    /\ compressor.status = "none"
    /\ \E n \in StageCounts, c \in CompressRatios :
         IF inlet.M_inlet_out.set
         THEN LET f == compressor_solver_begin(2, n, c, inlet.M_inlet_out, 3,
                                               compressor_solver_default_iterations)
              IN  /\ cs' = f
                  /\ compressor' =
                        [NoCompressor EXCEPT
                            !.status = IF f.status = "raised" THEN "failed" ELSE "solving",
                            !.stage_number = n, !.compress = c,
                            !.M_comp_in = inlet.M_inlet_out]
         ELSE /\ cs' = cs
              /\ compressor' = [NoCompressor EXCEPT !.status = "failed",
                                                    !.stage_number = n, !.compress = c]
    /\ UNCHANGED <<others, graphs, plot, gas, inlet, combustor, turbine, ms, bs>>

\* Compressor.__init__ after compressor_solver returned or raised (line 57):
\* st_out and compressor_work are kept; convergence is a local of
\* __init__ that is never read
CompressorAfterSolve ==
    /\ compressor.status = "solving"
    /\ cs.status \in {"returned", "raised"}
    /\ compressor' =
          IF cs.status = "raised"
          THEN [compressor EXCEPT !.status = "failed"]
          ELSE [compressor EXCEPT !.status = "built",
                                  !.st_out = zip(cs.stages_temperature_out, cs.stages_p_out),
                                  !.convergence = cs.converged,
                                  !.compressor_work = cs.compressor_work]
    /\ cs' = [IdleCompressorSolver EXCEPT !.passes = cs.passes]
    /\ UNCHANGED <<others, graphs, plot, gas, inlet, combustor, turbine, ms, bs>>

\* -------------------------------------------------------- combustor solver
combustor_solver_tol == <<1, 100>>

\* max_iter of combustor_solver (100 in the source), scaled to the bound
combustor_solver_max_iter == MaxIter

IdleCombustorSolver ==
    [status |-> "idle", gas_in |-> 0, gas_out |-> 0, velocity_nominal |-> 0,
     mach_in |-> Zero, mach_in_ok |-> TRUE, pressure_lost |-> Zero,
     p_total_in |-> Zero, p_total_out |-> Zero, p_total_used |-> Zero,
     max_iter |-> 0, n_iter |-> 0, converged |-> FALSE, mach_out |-> Zero,
     temperature_out |-> 0, p_out |-> 0, passes |-> 0,
     exhausted |-> FALSE, tol_met |-> FALSE]

\* lines 424-436: locals before the loop
combustor_solver_begin(g, gas_in, velocity_nominal, mach_in, pressure_lost, gas_out, max_iter) ==
    [status |-> IF 0 <= max_iter THEN "loop" ELSE "returned",
     gas_in |-> gas_in, gas_out |-> gas_out, velocity_nominal |-> velocity_nominal,
     mach_in |-> mach_in.val, mach_in_ok |-> mach_in.ok,
     pressure_lost |-> pressure_lost,
     p_total_in |-> get_p_total(g[gas_in].P, get_gamma(g[gas_in]), mach_in.val),
     p_total_out |-> RatMul(get_p_total(g[gas_in].P, get_gamma(g[gas_in]), mach_in.val),
                            RatSub(<<1, 1>>, pressure_lost)),
     p_total_used |-> Zero,
     max_iter |-> max_iter, n_iter |-> 0, converged |-> FALSE, mach_out |-> Zero,
     temperature_out |-> g[gas_in].T, p_out |-> g[gas_in].P, passes |-> 0,
     exhausted |-> FALSE, tol_met |-> FALSE]

\* lines 440-457 of one pass: g_out is gas_out after the property push of
\* line 439, (T, P) the static values lines 443-448 derive; p_total_used is
\* the total pressure handed to get_p_static in line 446
combustor_solver_check_compounds_loss(f, g_out, T, P) ==
    LET met == AbsDiffLess(<<g_out.P, 1>>, <<P, 1>>, combustor_solver_tol)
        lost == RatMul(f.p_total_out, RatSub(<<1, 1>>, f.pressure_lost))
        f1 == [f EXCEPT !.mach_out = Rat(f.velocity_nominal, get_a(g_out)),
                        !.temperature_out = T, !.p_out = P, !.tol_met = met,
                        !.p_total_out = lost, !.p_total_used = lost,
                        !.passes = f.passes + 1]
    IN  IF met
        THEN [f1 EXCEPT !.converged = TRUE]
        ELSE IF f.n_iter < f.max_iter
        THEN [f1 EXCEPT !.n_iter = f.n_iter + 1]
        ELSE [f1 EXCEPT !.mach_out = Zero, !.exhausted = TRUE]

combustor_solver_check(f, g_out, T, P) ==
    LET met == AbsDiffLess(<<g_out.P, 1>>, <<P, 1>>, combustor_solver_tol)
        f1 == [f EXCEPT !.mach_out = Rat(f.velocity_nominal, get_a(g_out)),
                        !.temperature_out = T, !.p_out = P, !.tol_met = met,
                        !.p_total_used = f.p_total_out,
                        !.passes = f.passes + 1]
    IN  IF met
        THEN [f1 EXCEPT !.converged = TRUE]
        ELSE IF f.n_iter < f.max_iter
        THEN [f1 EXCEPT !.n_iter = f.n_iter + 1]
        ELSE [f1 EXCEPT !.mach_out = Zero, !.exhausted = TRUE]

\* line 438: the loop condition, evaluated after a pass
combustor_solver_status(f) ==
    IF ~f.converged /\ f.n_iter <= f.max_iter THEN "loop" ELSE "returned"

\* one pass of the while loop of combustor_solver (lines 438-457); the
\* function returns (line 459) when the loop condition fails after the pass
CombustorPass(TT, PP) ==
    /\ bs.status = "loop"
    /\ bs.passes < MaxPasses
    /\ \E T \in TT, P \in PP :
         LET g_out == TP(gas[bs.gas_out], bs.temperature_out, bs.p_out)
             f == combustor_solver_check(bs, g_out, T, P)
         IN  /\ gas' = [gas EXCEPT ![bs.gas_out] = g_out]
             /\ bs' = [f EXCEPT !.status = combustor_solver_status(f)]
    /\ UNCHANGED <<others, graphs, plot, inlet, compressor, combustor, turbine, ms, cs>>

\* -------------------------------------------------------------- Combustor
Throttles == {0, 1}

\* CombustorData.Pressure_lost: relative total pressure loss
PressureLosses == {Zero, <<1, 20>>}

CombustorPressureLosses == {<<1, 20>>}

NominalVelocities == {0, 100}

CombustorVelocities == {100}

NoCombustor ==
    [status |-> "none", M_comb_in |-> Unset, M_comb_out |-> Unset,
     V_nominal |-> 0, pressure_lost |-> Zero, phi |-> 0,
     throttle_position |-> 0, max_fuel |-> 0, min_fuel |-> 0]

\* _gas_update without the set_equivalence_ratio call
set_equivalence_ratio_skipped(g, phi) == g

\* combustor.py 87-92: self.gas[4].set_equivalence_ratio(phi, fuel, oxidizer)
set_equivalence_ratio(g, phi) ==
    [g EXCEPT ![4] = [g[4] EXCEPT !.X = Composition("mixture", phi)]]

\* combustor.py 106: self.gas[4].equilibrate("HP"), T being the flame
\* temperature the provider finds
equilibrate(g, T) ==
    [g EXCEPT ![4] = [g[4] EXCEPT !.T = T, !.X = Composition("burnt", g[4].X.phi)]]

\* Combustor.__init__ and _gas_update up to the loop of combustor_solver
\* (combustor.py 56-100); fuel bounds in percent
CombustorInit ==
    /\ has_instance(compressor)
    /\ combustor.status = "none"
    /\ \E throttle \in Throttles, V \in CombustorVelocities,
          loss \in CombustorPressureLosses :
         LET max_fuel == 50
             min_fuel == 10
             phi == (max_fuel - min_fuel) * throttle + min_fuel
             g == set_equivalence_ratio(gas, phi)
         IN  /\ gas' = g
             /\ combustor' = [NoCombustor EXCEPT !.status = "solving",
                                                 !.M_comb_in = compressor.M_comp_in,
                                                 !.V_nominal = V, !.phi = phi,
                                                 !.pressure_lost = loss,
                                                 !.throttle_position = throttle,
                                                 !.max_fuel = max_fuel,
                                                 !.min_fuel = min_fuel]
             /\ bs' = combustor_solver_begin(g, 3, V, compressor.M_comp_in, loss, 4,
                                             combustor_solver_max_iter)
    /\ UNCHANGED <<others, graphs, plot, inlet, compressor, turbine, ms, cs>>

\* _gas_update after combustor_solver returned (combustor.py 101-106):
\* M_comb_out is assigned only on convergence, then station 4 is
\* equilibrated at constant enthalpy and pressure
CombustorAfterSolve(TT) ==
    /\ combustor.status = "solving"
    /\ bs.status = "returned"
    /\ \E T \in TT : gas' = equilibrate(gas, T)
    /\ combustor' = [combustor EXCEPT
                        !.status = "built",
                        !.M_comb_out = store_if_converged(combustor.M_comb_out, bs)]
    /\ bs' = IdleCombustorSolver
    /\ UNCHANGED <<others, graphs, plot, inlet, compressor, turbine, ms, cs>>

\* ----------------------------------------------------------------- Turbine
NoTurbine ==
    [status |-> "none", stage_number |-> 0, turbine_loss |-> <<1, 1>>,
     mach_in |-> Unset, work_per_stage |-> Zero,
     compressor_work |-> 0, stages_work |-> <<>>, stage_gas |-> NoGas]

TurbineLosses == {<<0, 1>>, <<99, 100>>, <<1, 1>>}

\* lines 506-510: the work taken out of the flow in each pass of the stage
\* loop, "work_per_stage / (stage_gas.cp * turbine_eta)" being the drop of
\* total temperature of every stage
turbine_stages_work(work_per_stage, turbine_n_stages) ==
    [st_counter \in 1..turbine_n_stages |-> work_per_stage]

\* work_per_stage without the loss factor
work_per_stage_of_no_loss(compressor_work, turbine_loss, turbine_n_stages) ==
    Rat(compressor_work, turbine_n_stages)

\* line 495: (compressor_work / turbine_loss) / turbine_n_stages
work_per_stage_of(compressor_work, turbine_loss, turbine_n_stages) ==
    Rat(compressor_work * turbine_loss[2], turbine_loss[1] * turbine_n_stages)

\* a commit that hands the composition of the scratch gas to the outlet
turbine_solver_commit_with_composition(g, gas_in, gas_out, T, P) ==
    [g EXCEPT ![gas_out] = TPX(g[gas_out], T, P, g[gas_in].X)]

\* line 538: gas_out.TP = temperature_out, p_out
turbine_solver_commit(g, gas_in, gas_out, T, P) ==
    [g EXCEPT ![gas_out] = TP(g[gas_out], T, P)]

\* Turbine.__init__ with its turbine_solver call (turbine.py 51-74,
\* engine_thermo.py 484-538).  Reading combustor.M_comb_out raises
\* AttributeError when the Combustor never assigned it; line 495 raises
\* ZeroDivisionError for turbine_loss = 0 or turbine_n_stages = 0 and
\* np.zeros raises ValueError for a negative stage count.  Otherwise the
\* stage loop runs on the scratch gas stage_gas, which starts from the
\* composition of station 4 (line 502) and is overwritten by every stage
\* (lines 521, 526), and the last stage's (T, p) is pushed to station 5.
TurbineInit(TT, PP) ==
    /\ has_instance(compressor)
    /\ has_instance(combustor)
    /\ turbine.status = "none"
    /\ \E n \in StageCounts, loss \in TurbineLosses :
         IF combustor.M_comb_out.set /\ loss[1] # 0 /\ n > 0
         THEN \E T \in TT, P \in PP :
                /\ gas' = turbine_solver_commit(gas, 4, 5, T, P)
                /\ turbine' = [status |-> "built", stage_number |-> n,
                               turbine_loss |-> loss,
                               mach_in |-> combustor.M_comb_out,
                               work_per_stage |->
                                   work_per_stage_of(compressor.compressor_work, loss, n),
                               compressor_work |-> compressor.compressor_work,
                               stages_work |->
                                   turbine_stages_work(
                                       work_per_stage_of(compressor.compressor_work, loss, n),
                                       n),
                               stage_gas |->
                                   TP(TPX(NoGas, gas[4].T, gas[4].P, gas[4].X), T, P)]
         ELSE /\ gas' = gas
              /\ turbine' = [NoTurbine EXCEPT !.status = "failed", !.stage_number = n,
                                              !.turbine_loss = loss,
                                              !.mach_in = combustor.M_comb_out]
    /\ UNCHANGED <<others, graphs, plot, inlet, compressor, combustor, ms, cs, bs>>

\* ----------------------------------------------------------------- analyze
Components == {"inlet", "compressor", "combustor", "turbine"}

NoPlot == [part |-> "none", trace |-> <<>>]

\* plot_temperature_enthropy that sweeps the isobars on the first station
\* it was given instead of on a scratch object
plot_temperature_enthropy_in_place(g, trace) ==
    [g EXCEPT ![0] = [g[0] EXCEPT !.T = trace[1].T + 99]]

\* plot_temperature_enthropy: the isobar sweep and the state points are
\* pushed to dummy_gas, a ct.Solution of its own, so the station
\* dictionary is what it was (gas_management.py line 51)
plot_temperature_enthropy(g, trace) == g

\* "for x in range(0, n)": the T, P, X of the first n stations
analyze_trace(g, n) == [x \in 1..n |-> g[x - 1]]

\* analyze() of a built component c reading its first n stations
analyze(c, n) ==
    LET trace == analyze_trace(gas, n)
    IN  /\ plot' = [part |-> c, trace |-> trace]
        /\ gas' = plot_temperature_enthropy(gas, trace)
        /\ UNCHANGED <<others, graphs, inlet, compressor, combustor, turbine, ms, cs, bs>>

\* Inlet.analyze (inlet.py 119-147)
InletAnalyze == has_instance(inlet) /\ analyze("inlet", 3)

\* Compressor.analyze (compressor.py 65-93): the lists it reads in lines
\* 79-82, before it looks up the plot function
CompressorAnalyze == has_instance(compressor) /\ analyze("compressor", 4)

\* Combustor.analyze (combustor.py 108-136)
CombustorAnalyze == has_instance(combustor) /\ analyze("combustor", 5)

\* Turbine.analyze (turbine.py 76-104)
TurbineAnalyze == has_instance(turbine) /\ analyze("turbine", 6)

\* --------------------------------------------------------- several graphs
MaxGraphs == 2     \* Inlets constructed side by side

Graphs == 1..MaxGraphs

\* objects: the ct.Solution objects allocated so far (their temperature);
\* gas[g]: the station dictionary of graph g, station st[i] |-> object;
\* written[g]: the last station a solver of graph g has pushed to
NoGraphs ==
    [objects |-> <<>>, gas |-> [g \in Graphs |-> <<>>], written |-> [g \in Graphs |-> 0]]

\* initialize_gas handing out one module-level set of station objects
initialize_gas_objects_shared(objects, temperature_amp) ==
    [objects |-> [i \in 1..7 |-> temperature_amp],
     gas |-> [i \in 1..7 |-> i]]

\* initialize_gas seen as an allocation: "gas = {}" and one new
\* ct.Solution per station of st on every call
initialize_gas_objects(objects, temperature_amp) ==
    [objects |-> objects \o [i \in 1..7 |-> temperature_amp],
     gas |-> [i \in 1..7 |-> Len(objects) + i]]

\* Inlet.__init__ of graph g: self.gas = initialize_gas(...)
GraphInletInit(g) ==
    /\ graphs.gas[g] = <<>>
    /\ \E h \in Altitudes :
         LET a == initialize_gas_objects(graphs.objects, isa_temperature(h))
         IN  graphs' = [graphs EXCEPT !.objects = a.objects, !.gas[g] = a.gas]
    /\ UNCHANGED <<others, gas, inlet, compressor, combustor, turbine, ms, cs, bs, plot>>

HeatedTemp == 1500

\* the next component of graph g pushes its result to its own outlet
\* station through the dictionary it got from its upstream component
\* (self.gas = inlet.gas, ..., gas_out.TP = ...): stations 1, 2 by the
\* Inlet, 3 by the Compressor, 4 by the Combustor, 5 by the Turbine
GraphSolve(g) ==
    /\ graphs.gas[g] # <<>>
    /\ graphs.written[g] < 5
    /\ LET s == graphs.written[g] + 1
           gas_out == graphs.gas[g][s + 1]
       IN  graphs' = [graphs EXCEPT !.objects[gas_out] = HeatedTemp,
                                    !.written[g] = s]
    /\ UNCHANGED <<others, gas, inlet, compressor, combustor, turbine, ms, cs, bs, plot>>

\* ------------------------------------------------------------ isa units
\* conversion tables of the isa module (isa.py 6-18)
CONVERT_TO_M ==
    ("meter" :> <<1, 1>>) @@ ("feet" :> <<381, 1250>>) @@ ("kilometer" :> <<1000, 1>>)

CONVERT_TO_M_S ==
    ("mps" :> <<1, 1>>) @@ ("knots" :> <<643, 1250>>) @@ ("kph" :> <<27777, 100000>>)

CONVERT_FROM_M == [key \in DOMAIN CONVERT_TO_M |-> <<CONVERT_TO_M[key][2], CONVERT_TO_M[key][1]>>]

CONVERT_FROM_M_S ==
    [key \in DOMAIN CONVERT_TO_M_S |-> <<CONVERT_TO_M_S[key][2], CONVERT_TO_M_S[key][1]>>]

ConverterNames == {"CONVERT_TO_M", "CONVERT_TO_M_S", "CONVERT_FROM_M", "CONVERT_FROM_M_S"}

Converter(name) ==
    CASE name = "CONVERT_TO_M" -> CONVERT_TO_M
      [] name = "CONVERT_TO_M_S" -> CONVERT_TO_M_S
      [] name = "CONVERT_FROM_M" -> CONVERT_FROM_M
      [] name = "CONVERT_FROM_M_S" -> CONVERT_FROM_M_S

UnitNames == {"meter", "feet", "kilometer", "mps", "knots", "kph", "yard"}

UnitValues == 0..3

Returned(v) == [outcome |-> "return", value |-> v]

Raised(e) == [outcome |-> e, value |-> Zero]

\* isa.py 57-61: the unit is looked for in CONVERT_TO_M, whatever table was
\* passed; converter[unit] raises KeyError for a unit the table lacks
_handle_units(height, unit, converter) ==
    IF unit \notin DOMAIN CONVERT_TO_M
    THEN Raised("ValueError: Invalid input unit")
    ELSE IF unit \notin DOMAIN converter
    THEN Raised("KeyError")
    ELSE Returned(RatMul(<<height, 1>>, converter[unit]))

\* isa.py 250-273: isa_delta converts the altitude (line 74), line 264
\* converts the speed; the value returned here is the speed in m/s that the
\* Mach formula of lines 265-272 is applied to
calibrated_v_to_mach(v_calibrated, height, speed_unit, altitude_unit) ==
    LET d == _handle_units(height, altitude_unit, CONVERT_TO_M)
    IN  IF d.outcome # "return"
        THEN d
        ELSE _handle_units(v_calibrated, speed_unit, CONVERT_TO_M_S)

NoUnits ==
    [status |-> "idle", fn |-> "none", value |-> 0, unit |-> "meter",
     altitude_unit |-> "meter", converter |-> "CONVERT_TO_M", result |-> Raised("none")]

\* a call of _handle_units runs to its return or raise
HandleUnits ==
    /\ units.status = "call"
    /\ units.fn = "_handle_units"
    /\ units' = [units EXCEPT
                    !.status = "done",
                    !.result = _handle_units(units.value, units.unit,
                                             Converter(units.converter))]
    /\ UNCHANGED <<engine, db, mongo>>

\* a call of calibrated_v_to_mach at altitude 0 runs to its return or raise
CalibratedVToMach ==
    /\ units.status = "call"
    /\ units.fn = "calibrated_v_to_mach"
    /\ units' = [units EXCEPT
                    !.status = "done",
                    !.result = calibrated_v_to_mach(units.value, 0, units.unit,
                                                    units.altitude_unit)]
    /\ UNCHANGED <<engine, db, mongo>>

\* ------------------------------------------------------ stored engine parts
MaxParts == 4

PartIds == 1..MaxParts

PartTypes == {"Inlet", "Compressor", "Combustor", "Turbine"}

\* the form data a part is submitted with
PartData == {1}

lower(name) ==
    CASE name = "Inlet" -> "inlet"
      [] name = "Compressor" -> "compressor"
      [] name = "Combustor" -> "combustor"
      [] name = "Turbine" -> "turbine"

\* forms.py: get_dependency_fields of the form of each part type, as the
\* sequence of required part types
get_dependency_fields(part_type) ==
    CASE part_type = "Inlet" -> <<>>
      [] part_type = "Compressor" -> <<"Inlet">>
      [] part_type = "Combustor" -> <<"Compressor">>
      [] part_type = "Turbine" -> <<"Compressor", "Combustor">>

None == [kind |-> "None"]

RaisedError == [kind |-> "raise"]

Diverges == [kind |-> "diverge"]

\* part_class(data_instance, **dependencies): every positional dependency of
\* __init__ must be passed (TypeError otherwise) and must carry the
\* attributes the constructor reads, which only an object of the named
\* class has (AttributeError otherwise); further keywords fall into **kwargs
part_class(part_type, data, dependencies) ==
    LET required == {lower(get_dependency_fields(part_type)[i]) :
                        i \in DOMAIN get_dependency_fields(part_type)}
    IN  IF /\ required \subseteq DOMAIN dependencies
           /\ \A k \in required : lower(dependencies[k].part_type) = k
        THEN [kind |-> "object", part_type |-> part_type, data |-> data,
              dependencies |-> [k \in required |-> dependencies[k]]]
        ELSE RaisedError

\* models.py 89-125
reconstruct_part_object(part_dict, dependencies) ==
    part_class(part_dict.part_type, part_dict.part_data, dependencies)

\* repositories.py 52-75: the part and those of its dependencies that are
\* still stored
get_part_with_dependencies(engine_parts, part_id) ==
    SelectSeq(engine_parts[part_id].dependencies, LAMBDA d : d \in DOMAIN engine_parts)

\* dep_objects[dep_type] = dep_object for every dependency in turn: a later
\* dependency of the same type replaces an earlier one
dep_objects_of(names, objects) ==
    LET keys == {lower(names[i]) : i \in {j \in DOMAIN names : objects[j].kind = "object"}}
    IN  [k \in keys |->
            objects[CHOOSE i \in DOMAIN names :
                       /\ objects[i].kind = "object" /\ lower(names[i]) = k
                       /\ \A j \in DOMAIN names :
                             (j > i /\ objects[j].kind = "object") => lower(names[j]) # k]]

\* repositories.py 77-107; depth is the number of nested calls still
\* allowed, Diverges the answer of a recursion that needs more
RECURSIVE get_part_object(_, _, _)
get_part_object(engine_parts, part_id, depth) ==
    IF depth = 0
    THEN Diverges
    ELSE IF part_id \notin DOMAIN engine_parts
    THEN None
    ELSE LET part == engine_parts[part_id]
             direct == get_part_with_dependencies(engine_parts, part_id)
             objects == [i \in DOMAIN direct |->
                            get_part_object(engine_parts, direct[i], depth - 1)]
             names == [i \in DOMAIN direct |-> engine_parts[direct[i]].name]
         IN  IF \E i \in DOMAIN direct : objects[i].kind = "diverge"
             THEN Diverges
             ELSE IF \E i \in DOMAIN direct : objects[i].kind = "raise"
             THEN RaisedError
             ELSE reconstruct_part_object(part, dep_objects_of(names, objects))

\* models.py 17-46 and repositories.py 12-30: the document insert_one stores
save_part(engine_parts, new_id, part_instance) ==
    [i \in DOMAIN engine_parts \cup {new_id} |->
        IF i = new_id
        THEN [name |-> part_instance.part_type, part_type |-> part_instance.part_type,
              part_data |-> part_instance.data, dependencies |-> <<>>,
              analysis_result |-> None]
        ELSE engine_parts[i]]

\* an add_dependency that records the new part in its dependency's document
add_dependency_reversed(engine_parts, part_id, dependency_id) ==
    IF dependency_id \in DOMAIN engine_parts
    THEN [engine_parts EXCEPT ![dependency_id].dependencies = Append(@, part_id)]
    ELSE engine_parts

\* models.py 49-66: $push of dependency_id onto the part's dependencies
add_dependency(engine_parts, part_id, dependency_id) ==
    IF part_id \in DOMAIN engine_parts
    THEN [engine_parts EXCEPT ![part_id].dependencies = Append(@, dependency_id)]
    ELSE engine_parts

RECURSIVE add_dependencies(_, _, _)
add_dependencies(engine_parts, part_id, dependency_ids) ==
    IF dependency_ids = <<>>
    THEN engine_parts
    ELSE add_dependencies(add_dependency(engine_parts, part_id, Head(dependency_ids)),
                          part_id, Tail(dependency_ids))

\* a delete that also removes every part listing the deleted one
delete_one_cascade(engine_parts, part_id) ==
    [i \in {j \in DOMAIN engine_parts :
               j # part_id /\ \A k \in DOMAIN engine_parts[j].dependencies :
                                  engine_parts[j].dependencies[k] # part_id} |->
        engine_parts[i]]

\* repositories.py 127-142: delete_one({"_id": part_id})
delete_one(engine_parts, part_id) ==
    [i \in DOMAIN engine_parts \ {part_id} |-> engine_parts[i]]

\* repositories.py 167-190: $set of analysis_result on the part's document
save_analysis_result(engine_parts, part_id, analysis_data) ==
    IF part_id \in DOMAIN engine_parts
    THEN [engine_parts EXCEPT ![part_id].analysis_result = analysis_data]
    ELSE engine_parts

\* a lookup that never finds a saved result
get_analysis_result_never(engine_parts, part_id) == None

\* repositories.py 192-214
get_analysis_result(engine_parts, part_id) ==
    IF part_id \in DOMAIN engine_parts
    THEN engine_parts[part_id].analysis_result
    ELSE None

\* the JSON figure analyze() returns is a function of the reconstructed
\* object: the part's own data and the chain it was built on
analysis_json(part_obj) == [kind |-> "figure", of |-> part_obj]

NoResponse == [request |-> "none", part_id |-> 0, status |-> 0, body |-> None,
               reconstructed |-> FALSE]

NoDb == [engine_parts |-> <<>>, next_id |-> 1, response |-> NoResponse]

\* the depth no reconstruction over the stored parts can need
ReconstructionDepth == MaxParts + 1

\* app.py 128-165: POST /create_part with the submitted dependency ids (the
\* select fields do not validate the choice); insert_one draws a fresh id
create_part(part_type, data_obj, submitted) ==
    /\ db.next_id <= MaxParts
    /\ LET fields == get_dependency_fields(part_type)
           objects == [i \in DOMAIN fields |->
                          get_part_object(db.engine_parts, submitted[i], ReconstructionDepth)]
           part_dependencies ==
               [k \in {lower(fields[i]) : i \in {j \in DOMAIN fields :
                                                    objects[j].kind = "object"}} |->
                   objects[CHOOSE i \in DOMAIN fields : lower(fields[i]) = k]]
           part_instance ==
               IF \E i \in DOMAIN fields : objects[i].kind \in {"raise", "diverge"}
               THEN RaisedError
               ELSE part_class(part_type, data_obj, part_dependencies)
       IN  IF part_instance.kind = "object"
           THEN db' = [db EXCEPT
                          !.engine_parts =
                              add_dependencies(save_part(db.engine_parts, db.next_id,
                                                         part_instance),
                                               db.next_id, submitted),
                          !.next_id = db.next_id + 1,
                          !.response = NoResponse]
           ELSE db' = [db EXCEPT !.response = NoResponse]
    /\ UNCHANGED <<engine, units, mongo>>

CreatePart ==
    \E part_type \in PartTypes, data_obj \in PartData :
        \E submitted \in [DOMAIN get_dependency_fields(part_type) -> PartIds] :
            create_part(part_type, data_obj, submitted)

\* app.py 177-201: POST /delete_part/<part_id>
delete_part(part_id) ==
    /\ db' = [db EXCEPT
                 !.engine_parts = IF part_id \in DOMAIN db.engine_parts
                                  THEN delete_one(db.engine_parts, part_id)
                                  ELSE db.engine_parts,
                 !.response = NoResponse]
    /\ UNCHANGED <<engine, units, mongo>>

DeletePart == \E part_id \in PartIds : delete_part(part_id)

\* app.py 204-249: GET /analyze_part/<part_id>
analyze_part(part_id) ==
    /\ LET cached_analysis == get_analysis_result(db.engine_parts, part_id)
           part_obj == get_part_object(db.engine_parts, part_id, ReconstructionDepth)
           answer(status, body, reconstructed) ==
               [request |-> "analyze_part", part_id |-> part_id, status |-> status,
                body |-> body, reconstructed |-> reconstructed]
       IN  IF cached_analysis # None
           THEN db' = [db EXCEPT !.response = answer(200, cached_analysis, FALSE)]
           ELSE IF part_obj.kind = "object"
           THEN db' = [db EXCEPT
                          !.engine_parts = save_analysis_result(db.engine_parts, part_id,
                                                                analysis_json(part_obj)),
                          !.response = answer(200, analysis_json(part_obj), TRUE)]
           ELSE IF part_obj.kind = "None"
           THEN db' = [db EXCEPT !.response = answer(400, None, TRUE)]
           ELSE db' = [db EXCEPT !.response = answer(500, None, TRUE)]
    /\ UNCHANGED <<engine, units, mongo>>

AnalyzePart == \E part_id \in PartIds : analyze_part(part_id)

\* ------------------------------------------------------- get_mongo_client
MAX_RETRIES == 5

RETRY_DELAY == 2

\* serverSelectionTimeoutMS=5000: an attempt answers or fails within 5 s
AttemptSeconds == 0..5

NoMongo ==
    [status |-> "idle", retries |-> 0, client |-> FALSE, attempts |-> 0,
     sleeps |-> 0, waited |-> 0, elapsed |-> 0]

\* database.py 20-21: retries = 0 and the loop condition
get_mongo_client_begin ==
    [NoMongo EXCEPT !.status = IF 0 < MAX_RETRIES THEN "loop" ELSE "raised"]

\* a retry loop that sleeps after every failed attempt
sleeps_after_failure_always(retries) == TRUE

\* database.py 33: after a failed attempt, time.sleep(RETRY_DELAY) is
\* called only when another attempt follows
sleeps_after_failure(retries) == retries < MAX_RETRIES

\* one pass of the while loop of get_mongo_client (database.py 21-35): the
\* attempt takes d seconds and succeeds (return client) or raises, in which
\* case retries is counted and the pass may sleep; when the loop condition
\* fails after the pass, ConnectionError is raised (lines 37-38)
get_mongo_client_pass(f, succeeded, d) ==
    LET tried == [f EXCEPT !.attempts = f.attempts + 1, !.elapsed = f.elapsed + d]
        retries == f.retries + 1
    IN  IF succeeded
        THEN [tried EXCEPT !.status = "returned", !.client = TRUE]
        ELSE IF sleeps_after_failure(retries)
        THEN [tried EXCEPT !.retries = retries,
                           !.sleeps = f.sleeps + 1,
                           !.waited = f.waited + RETRY_DELAY,
                           !.elapsed = f.elapsed + d + RETRY_DELAY,
                           !.status = IF retries < MAX_RETRIES THEN "loop" ELSE "raised"]
        ELSE [tried EXCEPT !.retries = retries,
                           !.status = IF retries < MAX_RETRIES THEN "loop" ELSE "raised"]

MongoAttempt ==
    /\ mongo.status = "loop"
    /\ \E succeeded \in BOOLEAN, d \in AttemptSeconds :
         mongo' = get_mongo_client_pass(mongo, succeeded, d)
    /\ UNCHANGED <<engine, units, db>>

OthersIdle == units = NoUnits /\ db = NoDb /\ mongo = NoMongo

EngineIdle ==
    /\ gas = [s \in Stations |-> NoGas]
    /\ inlet = NoInlet
    /\ compressor = NoCompressor
    /\ combustor = NoCombustor
    /\ turbine = NoTurbine
    /\ plot = NoPlot
    /\ graphs = NoGraphs
    /\ ms = IdleMach
    /\ cs = IdleCompressorSolver
    /\ bs = IdleCombustorSolver

\* --------------------------------------------------------- specifications
\* no Inlet has been constructed yet
Init ==
    /\ gas = [s \in Stations |-> NoGas]
    /\ inlet = NoInlet
    /\ compressor = NoCompressor
    /\ combustor = NoCombustor
    /\ turbine = NoTurbine
    /\ OthersIdle
    /\ plot = NoPlot
    /\ graphs = NoGraphs
    /\ ms = IdleMach
    /\ cs = IdleCompressorSolver
    /\ bs = IdleCombustorSolver

Next ==
    \/ InletInit
    \/ MachPass(GraphTemps, GraphPress)
    \/ InletAfterDuct1
    \/ InletAfterDuct2
    \/ CompressorInit
    \/ CompressorPass(GraphTemps)
    \/ CompressorAfterSolve
    \/ CombustorInit
    \/ CombustorPass(GraphTemps, GraphPress)
    \/ CombustorAfterSolve(GraphTemps)
    \/ TurbineInit(GraphTemps, GraphPress)
    \/ InletAnalyze
    \/ CompressorAnalyze
    \/ CombustorAnalyze
    \/ TurbineAnalyze

Spec == Init /\ [][Next]_vars

\* mach_solver called on its own on a freshly initialised station pair
InitDuct ==
    /\ \E T0 \in Temps, P0 \in Press, mf \in MassFlows, A \in Areas,
          M \in MachInputs, budget \in 0..MaxIter :
         /\ gas = initialize_gas(T0, P0)
         /\ ms = mach_solver_begin(initialize_gas(T0, P0), mf, A, 0, Attr(M, TRUE), 1, budget)
    /\ inlet = NoInlet
    /\ compressor = NoCompressor
    /\ combustor = NoCombustor
    /\ turbine = NoTurbine
    /\ OthersIdle
    /\ plot = NoPlot
    /\ graphs = NoGraphs
    /\ cs = IdleCompressorSolver
    /\ bs = IdleCombustorSolver

NextDuct == MachPass(Temps, Press)

SpecDuct == InitDuct /\ [][NextDuct]_vars

\* compressor_solver called on its own between stations 2 and 3
InitCompressorSolver ==
    /\ \E T0 \in Temps, n \in 1..MaxStages, budget \in 0..MaxIter :
         /\ gas = initialize_gas(T0, 1)
         /\ cs = compressor_solver_begin(2, n, 4, Attr(Zero, TRUE), 3, budget)
    /\ inlet = NoInlet
    /\ compressor = NoCompressor
    /\ combustor = NoCombustor
    /\ turbine = NoTurbine
    /\ OthersIdle
    /\ plot = NoPlot
    /\ graphs = NoGraphs
    /\ ms = IdleMach
    /\ bs = IdleCombustorSolver

NextCompressorSolver == CompressorPass(Temps)

SpecCompressorSolver == InitCompressorSolver /\ [][NextCompressorSolver]_vars

\* combustor_solver called on its own between stations 3 and 4
InitCombustorSolver ==
    /\ \E T0 \in Temps, P0 \in Press, V \in NominalVelocities, M \in MachInputs,
          loss \in PressureLosses, budget \in 0..MaxIter :
         /\ gas = initialize_gas(T0, P0)
         /\ bs = combustor_solver_begin(initialize_gas(T0, P0), 3, V, Attr(M, TRUE), loss, 4, budget)
    /\ inlet = NoInlet
    /\ compressor = NoCompressor
    /\ combustor = NoCombustor
    /\ turbine = NoTurbine
    /\ OthersIdle
    /\ plot = NoPlot
    /\ graphs = NoGraphs
    /\ ms = IdleMach
    /\ cs = IdleCompressorSolver

NextCombustorSolver == CombustorPass(Temps, Press)

SpecCombustorSolver == InitCombustorSolver /\ [][NextCombustorSolver]_vars

\* calls into the isa module: _handle_units with any table, and
\* calibrated_v_to_mach with any pair of unit names
InitUnits ==
    /\ EngineIdle
    /\ db = NoDb
    /\ mongo = NoMongo
    /\ \E v \in UnitValues, u \in UnitNames :
         \/ \E c \in ConverterNames :
               units = [NoUnits EXCEPT !.status = "call", !.fn = "_handle_units",
                                       !.value = v, !.unit = u, !.converter = c]
         \/ \E a \in UnitNames :
               units = [NoUnits EXCEPT !.status = "call", !.fn = "calibrated_v_to_mach",
                                       !.value = v, !.unit = u, !.altitude_unit = a,
                                       !.converter = "CONVERT_TO_M_S"]

NextUnits == HandleUnits \/ CalibratedVToMach

SpecUnits == InitUnits /\ [][NextUnits]_vars

\* get_mongo_client called at import of the database module
InitMongo ==
    /\ EngineIdle
    /\ units = NoUnits
    /\ db = NoDb
    /\ mongo = get_mongo_client_begin

NextMongo == MongoAttempt

SpecMongo == InitMongo /\ [][NextMongo]_vars

\* the three requests on the stored parts, in any order
NextParts == CreatePart \/ DeletePart \/ AnalyzePart

SpecParts == Init /\ [][NextParts]_vars

\* several Inlets and the components built on them, interleaved
NextGraphs == \E g \in Graphs : GraphInletInit(g) \/ GraphSolve(g)

SpecGraphs == Init /\ [][NextGraphs]_vars

\* ------------------------------------------------------------------ claims

\* C1: when mach_solver has not met the velocity tolerance within
\* max_iterations iterations (the pass made with n_iter = max_iterations
\* failed too), the call has returned, with Mach = 0 and converged = false.
C1_DuctReturnsWhenExhausted ==
    ms.exhausted => (ms.status = "returned" /\ ms.mach_out = Zero /\ ~ms.converged)

\* C2: when combustor_solver has not met the static-pressure tolerance within
\* max_iter iterations, the call has returned, with Mach = 0 and
\* converged = false.
C2_CombustorReturnsWhenExhausted ==
    bs.exhausted => (bs.status = "returned" /\ bs.mach_out = Zero /\ ~bs.converged)

\* C3: the stage-balancing loop of compressor_solver makes at most
\* max_iterations + 1 passes: while the loop is still running fewer passes
\* than that have been made, so the pass numbered max_iterations + 1 is the
\* last one, converged or not.
C3_CompressorLoopBounded ==
    /\ cs.passes <= cs.max_iterations + 1
    /\ cs.status = "loop" => cs.passes <= cs.max_iterations

C3_Witness ==
    /\ cs.status = "returned"
    /\ cs.max_iterations = MaxIter
    /\ cs.passes = cs.max_iterations + 1
    /\ ~cs.converged

\* C4: for valid inputs (positive mass flow and area) mach_solver never has
\* converged = true together with mach_out = 0: the Mach number it reports
\* on convergence is positive.
C4_ConvergedMachPositive ==
    (ms.converged /\ ms.mass_flow > 0 /\ ms.area > 0) => ms.mach_out[1] > 0

C4_Witness ==
    ms.status = "returned" /\ ms.converged /\ ms.mass_flow > 0 /\ ms.passes > 1

\* C5: whenever the loop of compressor_solver continues past a pass, that
\* pass's max_delta_t is at most the max_delta_t of the pass before it (the
\* initial reference value for the first pass).
C5_MonotonicImproving ==
    [][(cs.status = "loop" /\ cs'.passes = cs.passes + 1 /\ cs'.status = "loop")
          => cs'.max_delta_t <= (IF cs.passes = 0 THEN InitialPrevDeltaT
                                 ELSE cs.max_delta_t)]_vars

C5_Witness ==
    cs.status = "loop" /\ cs.passes >= 2 /\ cs.n_stages >= 2

\* a pass of compressor_solver that ran to its end
CompressorPassTaken ==
    cs.status = "loop" /\ cs'.passes = cs.passes + 1 /\ cs'.status # "raised"

CompressorCommitted(g, f) ==
    g[f.gas_out].T = f.temperature_static /\ g[f.gas_out].P = f.p_static

\* C6 as stated: a pass whose max_delta_t improved on the previous pass
\* applies the shift to the multiplier array and the loop iterates again;
\* a pass whose max_delta_t did not improve ends the loop with
\* converged = true and the outlet gas state set to that pass's static
\* temperature and pressure.
C6_ImproveOrConverge ==
    [][CompressorPassTaken =>
          IF cs'.max_delta_t < cs.prev_delta_t
          THEN /\ cs'.stage_multiplier =
                      apply_shift(cs.stage_multiplier, shifter(cs.n_stages))
               /\ cs'.status = "loop"
          ELSE /\ cs'.converged
               /\ cs'.status = "returned"
               /\ CompressorCommitted(gas', cs')]_vars

\* C6 amended: the same while the iteration budget is not used up
\* (n_iter < max_iterations); the pass made with n_iter = max_iterations
\* ends the loop with converged = false, improved or not, without applying
\* the shift.  Whenever the loop ends the outlet gas state is set to the
\* last pass's static temperature and pressure.
C6_ImproveOrConvergeWithinBudget ==
    [][CompressorPassTaken =>
          IF cs.n_iter >= cs.max_iterations
          THEN /\ ~cs'.converged
               /\ cs'.status = "returned"
               /\ cs'.stage_multiplier = cs.stage_multiplier
               /\ CompressorCommitted(gas', cs')
          ELSE IF cs'.max_delta_t < cs.prev_delta_t
          THEN /\ cs'.stage_multiplier =
                      apply_shift(cs.stage_multiplier, shifter(cs.n_stages))
               /\ cs'.status = "loop"
               /\ gas' = gas
          ELSE /\ cs'.converged
               /\ cs'.status = "returned"
               /\ CompressorCommitted(gas', cs')]_vars

C6_Witness ==
    /\ cs.status = "returned"
    /\ cs.converged
    /\ cs.n_stages >= 2
    /\ cs.passes >= 2
    /\ cs.stage_multiplier[1] >= 1
    /\ CompressorCommitted(gas, cs)

\* compressor_solver returned because the budget ran out
CompressorExhausted == cs.status = "returned" /\ ~cs.converged

\* C7 as stated: when compressor_solver exhausts max_iterations it returns
\* converged = false and what it commits and returns belongs to the pass
\* with the smallest max_delta_t of all passes made.
C7_KeepsBest ==
    CompressorExhausted =>
        /\ CompressorCommitted(gas, cs)
        /\ cs.max_delta_t = cs.min_delta_t

\* C7 amended: when compressor_solver exhausts max_iterations it returns
\* converged = false and what it commits and returns belongs to the last
\* pass made (the pass numbered max_iterations + 1); that pass has the
\* smallest max_delta_t of all passes if it is the only pass or improved on
\* the pass before it, and otherwise the pass before it was better.
C7_KeepsLast ==
    CompressorExhausted =>
        /\ cs.passes = cs.max_iterations + 1
        /\ CompressorCommitted(gas, cs)
        /\ cs.temperature_static = cs.stages_temperature_out[cs.n_stages]
        /\ cs.p_static = cs.stages_p_out[cs.n_stages]
        /\ IF cs.passes = 1 \/ cs.max_delta_t < cs.prev_delta_t
           THEN cs.max_delta_t = cs.min_delta_t
           ELSE cs.min_delta_t = cs.prev_delta_t /\ cs.min_delta_t <= cs.max_delta_t

C7_Witness ==
    /\ CompressorExhausted
    /\ cs.passes >= 2
    /\ cs.max_delta_t > cs.min_delta_t
    /\ gas[cs.gas_out].T # gas[cs.gas_in].T

\* C8: a component whose solver reported converged = false has no
\* successfully constructed dependant: no Compressor on an Inlet whose
\* second duct solve failed, no Combustor or Turbine on a Compressor whose
\* solver did not converge, no Turbine on a Combustor whose solver did not
\* converge.
C8_FailedBuildAbortsDependants ==
    /\ (inlet.status = "built" /\ ~inlet.M_inlet_out.set) => compressor.status # "built"
    /\ (compressor.status = "built" /\ ~compressor.convergence) =>
           (combustor.status # "built" /\ turbine.status # "built")
    /\ (combustor.status = "built" /\ ~combustor.M_comb_out.set) => turbine.status # "built"

C10_InvalidConfigRejected ==
    /\ (compressor.status # "none"
            /\ (compressor.stage_number <= 0 \/ compressor.compress <= 0)) =>
           (compressor.status # "built" /\ cs.passes = 0 /\ gas[3] = gas[0])
    /\ (turbine.status # "none" /\ turbine.stage_number <= 0) =>
           (turbine.status = "failed" /\ gas[5] = gas[0])

\* C11: after initialize_gas every station has at most one writer: a step
\* changes station 1 or 2 only as the gas_out push of an Inlet duct solve,
\* station 3 only while the Compressor is being constructed, station 4 only
\* while the Combustor is being constructed and station 5 only while the
\* Turbine is being constructed; no step of a component changes its
\* upstream input station, and stations 'a' (0) and 6 never change.
C11_SingleWriter ==
    [][inlet.status # "none" =>
          /\ gas'[0] = gas[0]
          /\ gas'[6] = gas[6]
          /\ \A s \in {1, 2} :
                gas'[s] # gas[s] =>
                    /\ inlet.status = (IF s = 1 THEN "duct1" ELSE "duct2")
                    /\ ms.status = "loop" /\ ms.gas_out = s /\ ms.gas_in = s - 1
                    /\ compressor.status = "none"
          /\ gas'[3] # gas[3] =>
                /\ compressor.status = "solving" /\ cs.status = "loop"
                /\ cs.gas_out = 3 /\ cs.gas_in = 2
                /\ combustor.status = "none"
          /\ gas'[4] # gas[4] =>
                /\ combustor.status \in {"none", "solving"}
                /\ combustor'.status \in {"solving", "built"}
                /\ turbine.status = "none"
          /\ gas'[5] # gas[5] =>
                /\ turbine.status = "none" /\ turbine'.status = "built"]_vars

C11_Witness ==
    /\ turbine.status = "built"
    /\ \A s \in 1..5 : gas[s] # gas[0]
    /\ gas[6] = gas[0]

\* C12: components are solved in dependency order: the Compressor and its
\* solver exist only after both duct solves of the Inlet have finished, the
\* Combustor and its solver only after the Compressor solver has finished,
\* the Turbine only after both the Compressor and the Combustor have been
\* built; a component is never under construction without a built instance
\* of each upstream component.
C12_DependencyOrder ==
    /\ (compressor.status # "none" \/ cs.status # "idle") =>
           (inlet.status = "built" /\ ms.status = "idle")
    /\ (combustor.status # "none" \/ bs.status # "idle") =>
           (compressor.status = "built" /\ cs.status = "idle")
    /\ turbine.status # "none" =>
           (compressor.status = "built" /\ combustor.status = "built"
               /\ cs.status = "idle" /\ bs.status = "idle")

C12_Witness ==
    /\ turbine.status = "built"
    /\ compressor.convergence
    /\ combustor.M_comb_out.set

\* C13: independent graphs share no state: the station dictionary a new
\* Inlet gets consists of objects no other graph's dictionary holds, and a
\* step of one graph (its Inlet construction or a push by one of its
\* solvers) changes neither the dictionary nor any station object of
\* another graph, in every interleaving of the builds.
C13_GraphsShareNoState ==
    [][\A g \in Graphs, h \in Graphs :
          (g # h /\ (graphs'.written[g] # graphs.written[g]
                        \/ graphs'.gas[g] # graphs.gas[g])) =>
              /\ graphs'.gas[h] = graphs.gas[h]
              /\ \A s \in DOMAIN graphs.gas[h] :
                    graphs'.objects[graphs.gas[h][s]] = graphs.objects[graphs.gas[h][s]]
              /\ \A s \in DOMAIN graphs'.gas[g], t \in DOMAIN graphs'.gas[h] :
                    graphs'.gas[g][s] # graphs'.gas[h][t]]_vars

C13_Witness ==
    /\ \A g \in Graphs : graphs.written[g] = 5
    /\ graphs.objects[graphs.gas[1][1]] # graphs.objects[graphs.gas[2][1]]
    /\ graphs.objects[graphs.gas[1][6]] = HeatedTemp

\* the equivalence ratio Combustor derives from its throttle position
CombustorPhi ==
    (combustor.max_fuel - combustor.min_fuel) * combustor.throttle_position
        + combustor.min_fuel

\* C14 as stated: while combustor_solver runs for the Combustor, station 4
\* has its composition set from phi = (max_f - min_f) * throttle + min_f
\* and has already been equilibrated.
C14_EquilibratedBeforeSolver ==
    bs.status \in {"loop", "returned"} =>
        /\ combustor.phi = CombustorPhi
        /\ gas[4].X = Composition("burnt", combustor.phi)

\* C14 amended: while combustor_solver runs for the Combustor, station 4
\* has its composition set to the fuel/air mixture of
\* phi = (max_f - min_f) * throttle + min_f and has not been equilibrated
\* yet; equilibration is requested after the solver has returned, so
\* station 4 holds the equilibrated composition once the Combustor is built.
C14_MixtureBeforeSolverEquilibrateAfter ==
    /\ bs.status \in {"loop", "returned"} =>
          /\ combustor.status = "solving"
          /\ combustor.phi = CombustorPhi
          /\ gas[4].X = Composition("mixture", combustor.phi)
    /\ combustor.status = "built" =>
          /\ combustor.phi = CombustorPhi
          /\ gas[4].X = Composition("burnt", combustor.phi)

C14_Witness ==
    /\ combustor.status = "solving"
    /\ bs.status = "loop"
    /\ bs.passes >= 1
    /\ combustor.throttle_position = 1
    /\ gas[4].X = Composition("mixture", 50)

\* the number of stations each component's analyze() is to cover
AnalyzedStations(c) ==
    CASE c = "inlet" -> 3
      [] c = "compressor" -> 4
      [] c = "combustor" -> 5
      [] c = "turbine" -> 6
      [] OTHER -> 0

\* C15: analyze() is a pure read: a step that is an analyze() call leaves
\* every station, every component and every solver frame unchanged (no
\* solver runs), two analyze() calls of the same component in a row read
\* the same trace, the trace last read is still what the stations hold, and
\* it covers exactly the first 3 / 4 / 5 / 6 stations for Inlet /
\* Compressor / Combustor / Turbine.
C15_AnalyzePureRead ==
    [][/\ plot' # plot =>
             /\ gas' = gas
             /\ <<inlet, compressor, combustor, turbine>>' =
                    <<inlet, compressor, combustor, turbine>>
             /\ <<ms, cs, bs>>' = <<ms, cs, bs>>
             /\ plot'.part # plot.part
       /\ Len(plot'.trace) = AnalyzedStations(plot'.part)
       /\ \A x \in DOMAIN plot'.trace : plot'.trace[x] = gas'[x - 1]]_vars

C15_Witness ==
    /\ plot.part = "turbine"
    /\ Len(plot.trace) = 6
    /\ plot.trace[6] = gas[5]
    /\ gas[5] # gas[0]

\* C16: with one stage, the stage trace compressor_solver returns has
\* exactly one (T, p) entry, and it is the temperature and pressure
\* committed to the outlet station.
C16_SingleStageTrace ==
    (cs.status = "returned" /\ cs.n_stages = 1) =>
        LET trace == zip(cs.stages_temperature_out, cs.stages_p_out)
        IN  /\ Len(trace) = 1
            /\ trace[1] = <<gas[cs.gas_out].T, gas[cs.gas_out].P>>

C16_Witness ==
    /\ cs.status = "returned"
    /\ cs.n_stages = 1
    /\ gas[cs.gas_out].T # gas[cs.gas_in].T
    /\ gas[cs.gas_out].T = 1500

\* C17: with one stage and a budget of at least two iterations (the default
\* is 5000), compressor_solver returns converged = true: the multiplier of the single
\* stage is never shifted, so a second pass repeats the max_delta_t of the
\* first and the loop stops as no longer improving (a first pass that does
\* not get below the initial reference stops it at once).
C17_SingleStageConverges ==
    (cs.n_stages = 1 /\ cs.max_iterations >= 2 /\ cs.status \in {"loop", "returned"}) =>
        /\ cs.stage_multiplier = cs.last_multiplier \/ cs.passes = 0
        /\ shifter(1) = <<(<<1, 1>>)>>
        /\ cs.status = "returned" =>
              /\ cs.converged
              /\ cs.passes <= 2
              /\ cs.passes = 2 => cs.max_delta_t = cs.prev_delta_t

C17_Witness ==
    /\ cs.n_stages = 1
    /\ cs.max_iterations = MaxIter
    /\ cs.status = "returned"
    /\ cs.converged
    /\ cs.passes = 2

\* the largest element of a non-empty set of integers
MaxOf(S) == CHOOSE m \in S : \A x \in S : x <= m

\* a pass of compressor_solver has produced stage temperatures
CompressorPassDone == cs.status \in {"loop", "returned"} /\ cs.passes > 0

\* C18: max_delta_t by stage count: one stage: the stage outlet temperature
\* minus the inlet temperature; two stages: the larger of T2 - T1 and
\* T1 - T_inlet; three or more stages: the largest difference between
\* consecutive stage outlet temperatures.
C18_MaxDeltaTByStageCount ==
    CompressorPassDone =>
        LET t == cs.stages_temperature_out
            T_inlet == gas[cs.gas_in].T
        IN  cs.max_delta_t =
               CASE cs.n_stages = 1 -> t[1] - T_inlet
                 [] cs.n_stages = 2 -> MaxOf({t[2] - t[1], t[1] - T_inlet})
                 [] OTHER -> MaxOf({t[i + 1] - t[i] : i \in 1..(cs.n_stages - 1)})

C18_Witness ==
    /\ CompressorPassDone
    /\ cs.n_stages = 3
    /\ cs.max_delta_t = cs.stages_temperature_out[3] - cs.stages_temperature_out[2]
    /\ cs.stages_temperature_out[1] - gas[cs.gas_in].T > cs.max_delta_t
    /\ cs.max_delta_t > cs.stages_temperature_out[2] - cs.stages_temperature_out[1]

\* C19 as stated: for two stages the explicit branch is taken and its value
\* agrees with what the general rule (largest difference between
\* consecutive stage outlet temperatures) gives for the same two stage
\* temperatures.
C19_TwoStageAgreesWithGeneral ==
    (CompressorPassDone /\ cs.n_stages = 2) =>
        LET t == cs.stages_temperature_out
        IN  /\ cs.max_delta_t = MaxOf({t[2] - t[1], t[1] - gas[cs.gas_in].T})
            /\ cs.max_delta_t = MaxOf({t[i + 1] - t[i] : i \in 1..1})

\* C19 amended: for two stages the explicit branch is taken: max_delta_t is
\* the larger of T2 - T1 and T1 - T_inlet.  It is never below the general
\* rule's value T2 - T1 and equals it exactly when T1 - T_inlet <= T2 - T1.
C19_TwoStageExplicitBranch ==
    (CompressorPassDone /\ cs.n_stages = 2) =>
        LET t == cs.stages_temperature_out
            general == MaxOf({t[i + 1] - t[i] : i \in 1..1})
            inlet_delta == t[1] - gas[cs.gas_in].T
        IN  /\ cs.max_delta_t = MaxOf({t[2] - t[1], inlet_delta})
            /\ cs.max_delta_t >= general
            /\ (cs.max_delta_t = general) <=> (inlet_delta <= t[2] - t[1])

C19_Witness ==
    /\ CompressorPassDone
    /\ cs.n_stages = 2
    /\ cs.max_delta_t > cs.stages_temperature_out[2] - cs.stages_temperature_out[1]
    /\ cs.max_delta_t = cs.stages_temperature_out[1] - gas[cs.gas_in].T

RatAdd(x, y) == Rat(x[1] * y[2] + y[1] * x[2], x[2] * y[2])

RatLeq(x, y) == x[1] * y[2] <= y[1] * x[2]

RECURSIVE RatSum(_)
RatSum(q) == IF q = <<>> THEN Zero ELSE RatAdd(q[1], RatSum(Tail(q)))

\* the work the turbine is asked for over all its stages
TurbineTotalWork == RatSum(turbine.stages_work)

\* every stage is asked for (compressor_work / loss_factor) / stage_count,
\* which adds up to compressor_work / loss_factor
TurbineWorkSplit ==
    LET n == turbine.stage_number
        loss == turbine.turbine_loss
        cw == turbine.compressor_work
    IN  /\ Len(turbine.stages_work) = n
        /\ \A i \in 1..n : turbine.stages_work[i] = Rat(cw * loss[2], loss[1] * n)
        /\ TurbineTotalWork = Rat(cw * loss[2], loss[1])

\* C20 as stated: turbine_solver asks every stage for the same work
\* (compressor_work / loss_factor) / stage_count, the stages together for
\* compressor_work / loss_factor, and that total is at least
\* compressor_work for 0 < loss_factor <= 1.
C20_TotalAtLeastCompressorWork ==
    turbine.status = "built" =>
        /\ TurbineWorkSplit
        /\ RatLeq(turbine.turbine_loss, <<1, 1>>) =>
               RatLeq(<<turbine.compressor_work, 1>>, TurbineTotalWork)

\* C20 amended: the same split and total; the total is at least
\* compressor_work for 0 < loss_factor <= 1 provided compressor_work >= 0,
\* and below compressor_work when compressor_work < 0 and loss_factor < 1.
C20_TotalAtLeastNonNegativeCompressorWork ==
    turbine.status = "built" =>
        /\ TurbineWorkSplit
        /\ (RatLeq(turbine.turbine_loss, <<1, 1>>) /\ turbine.compressor_work >= 0) =>
               RatLeq(<<turbine.compressor_work, 1>>, TurbineTotalWork)
        /\ (turbine.turbine_loss # <<1, 1>> /\ turbine.compressor_work < 0) =>
               ~RatLeq(<<turbine.compressor_work, 1>>, TurbineTotalWork)

C20_Witness ==
    /\ turbine.status = "built"
    /\ turbine.stage_number = 3
    /\ turbine.turbine_loss = <<99, 100>>
    /\ turbine.compressor_work > 0
    /\ turbine.work_per_stage = turbine.stages_work[3]

\* C21: in combustor_solver the outlet total pressure is the inlet total
\* pressure times (1 - pressure_lost), every pass hands that same value to
\* get_p_static, and with pressure_lost = 0 the value used in the converging
\* pass is the inlet total pressure.
C21_OutletTotalPressureFixed ==
    bs.status \in {"loop", "returned"} =>
        /\ bs.p_total_in = get_p_total(gas[bs.gas_in].P, get_gamma(gas[bs.gas_in]), bs.mach_in)
        /\ bs.p_total_out = RatMul(bs.p_total_in, RatSub(<<1, 1>>, bs.pressure_lost))
        /\ bs.passes > 0 => bs.p_total_used = bs.p_total_out
        /\ (bs.converged /\ bs.pressure_lost = Zero) => bs.p_total_used = bs.p_total_in

C21_Witness ==
    /\ bs.status = "returned"
    /\ bs.converged
    /\ bs.passes >= 2
    /\ bs.pressure_lost # Zero
    /\ bs.mach_in # Zero
    /\ bs.p_total_used = bs.p_total_out
    /\ bs.p_total_out # bs.p_total_in

C23_ShiftSymmetric ==
    cs.status \in {"loop", "returned"} =>
        LET n == cs.n_stages
            center == n \div 2
            sh == shifter(n)
            One == <<1, 1>>
        IN  /\ \A i \in 0..(center - 1) :
                  LET by == Rat((center - i) * shift[1], shift[2] * n)
                  IN  /\ RatSub(sh[i + 1], One) = by
                      /\ RatSub(One, sh[n - i]) = by
                      /\ RatLeq(One, sh[i + 1])
                      /\ RatLeq(sh[n - i], One) /\ sh[n - i][1] > 0
            /\ n % 2 = 1 => (sh[center + 1] = One /\ cs.stage_multiplier[center + 1] = 0)
            /\ \A i \in 1..n : cs.stage_multiplier[i] >= 0
            /\ \A i \in 0..(center - 1) :
                  cs.stage_multiplier[i + 1] = cs.stage_multiplier[n - i]

C23_Witness ==
    /\ cs.status = "loop"
    /\ cs.n_stages = 3
    /\ cs.stage_multiplier[1] >= 2
    /\ cs.stage_multiplier[2] = 0
    /\ cs.stage_multiplier[3] >= 2

\* C24 as stated: _handle_units returns value * converter[unit] for every
\* unit that is a key of the conversion table passed as converter, and
\* raises ValueError('Invalid input unit') exactly when the unit is not a
\* key of that table.
C24_HandleUnitsByPassedTable ==
    (units.status = "done" /\ units.fn = "_handle_units") =>
        LET converter == Converter(units.converter)
        IN  IF units.unit \in DOMAIN converter
            THEN units.result = Returned(RatMul(<<units.value, 1>>, converter[units.unit]))
            ELSE units.result = Raised("ValueError: Invalid input unit")

\* C25: the three results of compressor_solver come from the final pass
\* executed: the stage trace is that pass's, the specific work is the sum
\* over that pass's stages only, and the temperature and pressure committed
\* to the outlet station are those of that pass's last stage.
C25_ResultsFromFinalPass ==
    (cs.status = "returned" /\ cs.passes > 0) =>
        /\ cs.last_multiplier = cs.stage_multiplier
        /\ cs.stages_p_out = stage_pressures(cs.stages_temperature_out)
        /\ cs.max_delta_t = max_delta_t_of(cs.n_stages, cs.stages_temperature_out,
                                            gas[cs.gas_in].T)
        /\ cs.compressor_work =
               stage_work(cs.stages_temperature_out, gas[cs.gas_in].T, gas_cp)
        /\ cs.temperature_static = cs.stages_temperature_out[cs.n_stages]
        /\ cs.p_static = cs.stages_p_out[cs.n_stages]
        /\ CompressorCommitted(gas, cs)

C25_Witness ==
    /\ cs.status = "returned"
    /\ cs.passes >= 2
    /\ cs.n_stages >= 2
    /\ cs.max_delta_t > cs.min_delta_t
    /\ cs.compressor_work > 0
    /\ CompressorCommitted(gas, cs)
    /\ gas[cs.gas_out].T # gas[cs.gas_in].T

\* C26: only the Combustor changes a station's composition: a step changes
\* the composition of a station only when it is initialize_gas or one of
\* the Combustor's two writes on station 4, every other station keeps the
\* air composition it was initialized with, and the turbine outlet
\* (station 5) does not receive the composition of station 4, which only
\* the turbine's scratch gas takes.
C26_OnlyCombustorChangesComposition ==
    [][/\ \A s \in Stations :
            gas'[s].X # gas[s].X =>
               \/ inlet.status = "none" /\ inlet'.status = "duct1"
               \/ s = 4 /\ combustor.status = "none" /\ combustor'.status = "solving"
               \/ s = 4 /\ combustor.status = "solving" /\ combustor'.status = "built"
       /\ inlet'.status # "none" => \A s \in Stations \ {4} : gas'[s].X = comp_air
       /\ turbine'.status = "built" =>
             (gas'[5].X = comp_air /\ turbine'.stage_gas.X = gas'[4].X)]_vars

C26_Witness ==
    /\ turbine.status = "built"
    /\ gas[4].X.kind = "burnt"
    /\ turbine.stage_gas.X = gas[4].X
    /\ gas[5].X = comp_air
    /\ gas[5].T # gas[0].T
    /\ \A s \in Stations \ {4} : gas[s].X = comp_air

\* C27: after any sequence of create_part and delete_part requests the
\* stored dependency references are acyclic: a part only references parts
\* that were saved before it (ids are handed out in order of saving), so the
\* recursive reconstruction of get_part_object ends for every part id
\* within as many nested calls as there are ids.
C27_DependenciesAcyclic ==
    /\ \A p \in DOMAIN db.engine_parts :
          \A k \in DOMAIN db.engine_parts[p].dependencies :
              /\ db.engine_parts[p].dependencies[k] < p
              /\ db.engine_parts[p].dependencies[k] \in 1..(db.next_id - 1)
    /\ \A part_id \in PartIds :
          get_part_object(db.engine_parts, part_id, ReconstructionDepth).kind # "diverge"

C27_Witness ==
    /\ DOMAIN db.engine_parts = {3, 4}
    /\ db.engine_parts[4].name = "Turbine"
    /\ db.engine_parts[4].dependencies = <<2, 3>>
    /\ db.engine_parts[3].dependencies = <<2>>
    /\ get_part_object(db.engine_parts, 4, ReconstructionDepth).kind = "raise"
    /\ get_part_object(db.engine_parts, 1, ReconstructionDepth).kind = "None"

\* an analyze_part request for part_id was answered in this step
AnalyzeAnswered(part_id) ==
    db'.response.request = "analyze_part" /\ db'.response.part_id = part_id

\* the answer is the result saved for part_id, served without reconstructing
\* the part and without writing to the collection
ServedSaved(part_id) ==
    /\ db'.response.status = 200
    /\ db'.response.body = db.engine_parts[part_id].analysis_result
    /\ ~db'.response.reconstructed
    /\ db'.engine_parts = db.engine_parts

\* C28 as stated: once an analysis result has been saved for a part id,
\* every later analyze_part request for that id returns the saved result
\* without reconstructing the part, and no later request changes or
\* invalidates the saved result.
C28_SavedResultServedForever ==
    [][\A part_id \in DOMAIN db.engine_parts :
          db.engine_parts[part_id].analysis_result # None =>
             /\ part_id \in DOMAIN db'.engine_parts
             /\ db'.engine_parts[part_id].analysis_result =
                    db.engine_parts[part_id].analysis_result
             /\ AnalyzeAnswered(part_id) => ServedSaved(part_id)]_vars

\* C28 amended: for as long as the part's own document is stored, every
\* analyze_part request for an id with a saved result returns that result
\* without reconstructing the part, and no request changes the saved result
\* (deleting a part it depends on included); delete_part of the part itself
\* removes the document together with the saved result, after which
\* analyze_part answers 400.
C28_SavedResultServedWhileStored ==
    [][\A part_id \in DOMAIN db.engine_parts :
          db.engine_parts[part_id].analysis_result # None =>
             IF part_id \in DOMAIN db'.engine_parts
             THEN /\ db'.engine_parts[part_id].analysis_result =
                        db.engine_parts[part_id].analysis_result
                  /\ AnalyzeAnswered(part_id) => ServedSaved(part_id)
             ELSE /\ db'.response = NoResponse
                  /\ get_analysis_result(db'.engine_parts, part_id) = None
                  /\ get_part_object(db'.engine_parts, part_id, ReconstructionDepth) = None]_vars

\* a saved result was served for a part whose dependency has been deleted,
\* so that reconstructing the part would raise
C28_Witness ==
    /\ db.response.request = "analyze_part"
    /\ db.response.status = 200
    /\ ~db.response.reconstructed
    /\ db.response.part_id \in DOMAIN db.engine_parts
    /\ db.response.body = db.engine_parts[db.response.part_id].analysis_result
    /\ db.response.body # None
    /\ \E k \in DOMAIN db.engine_parts[db.response.part_id].dependencies :
          db.engine_parts[db.response.part_id].dependencies[k] \notin DOMAIN db.engine_parts
    /\ get_part_object(db.engine_parts, db.response.part_id, ReconstructionDepth).kind = "raise"

\* a delete_part request for a stored part was carried out in this step
Deleted(part_id) ==
    part_id \in DOMAIN db.engine_parts /\ part_id \notin DOMAIN db'.engine_parts

\* C29: delete_part removes only the targeted part document: every other
\* stored part, the parts that list the deleted part as a dependency
\* included, keeps its data, its dependency list and its saved analysis.
C29_DeleteRemovesOnlyTarget ==
    [][\A part_id \in PartIds :
          Deleted(part_id) =>
             /\ DOMAIN db'.engine_parts = DOMAIN db.engine_parts \ {part_id}
             /\ \A other \in DOMAIN db'.engine_parts :
                   db'.engine_parts[other] = db.engine_parts[other]
             /\ db'.next_id = db.next_id]_vars

\* a part with a saved analysis still lists a dependency that was deleted
C29_Witness ==
    \E p \in DOMAIN db.engine_parts :
        /\ db.engine_parts[p].analysis_result # None
        /\ Len(db.engine_parts[p].dependencies) = 2
        /\ \A k \in DOMAIN db.engine_parts[p].dependencies :
              db.engine_parts[p].dependencies[k] \notin DOMAIN db.engine_parts
        /\ db.response = NoResponse

\* C30: get_mongo_client makes at most MAX_RETRIES connection attempts; it
\* returns the client of the first successful attempt, every attempt
\* before it having failed; it raises ConnectionError once MAX_RETRIES
\* attempts have failed; and it waits RETRY_DELAY after a failed attempt
\* only when another attempt follows, never after the last failed one.
C30_AtMostMaxRetriesAttempts ==
    /\ mongo.attempts <= MAX_RETRIES
    /\ mongo.waited = RETRY_DELAY * mongo.sleeps
    /\ mongo.status = "loop" =>
          (mongo.attempts < MAX_RETRIES /\ mongo.retries = mongo.attempts
             /\ mongo.sleeps = mongo.attempts /\ ~mongo.client)
    /\ mongo.status = "returned" =>
          (mongo.client /\ mongo.retries = mongo.attempts - 1
             /\ mongo.sleeps = mongo.attempts - 1)
    /\ mongo.status = "raised" =>
          (~mongo.client /\ mongo.attempts = MAX_RETRIES /\ mongo.retries = MAX_RETRIES
             /\ mongo.sleeps = MAX_RETRIES - 1)

C30_Witness ==
    /\ mongo.status = "raised"
    /\ mongo.attempts = MAX_RETRIES
    /\ mongo.sleeps = MAX_RETRIES - 1
    /\ mongo.elapsed > mongo.waited

====
